---- MODULE Spec2Model ----
(***************************************************************************)
(* A model of the onnxruntime safety layer: the session lifecycle          *)
(* (SessionBuilder::build, Session::read_inputs) of session.rs and the     *)
(* output tensor extraction (DynOrtTensor, TensorPointerHolder) of         *)
(* tensor/ort_owned_tensor.rs.                                             *)
(*                                                                         *)
(* Native handles are positive integers and 0 is the null pointer.  Every  *)
(* native call is an external: its status and its out-parameter are drawn  *)
(* nondeterministically from the outcomes the ABI allows.                  *)
(***************************************************************************)
EXTENDS Integers, Sequences, FiniteSets, TLC

\* ------------------------------------------------------------------ bounds

\* Host threads that build sessions concurrently (SpecConc).
NumHosts == 2
\* Builders created over a run: bounds the handle counter.
MaxBuilds == 2

\* Inputs a model declares, as SessionGetInputCount reports them.
MaxInputs == 2
\* Dimensions of one input, as GetDimensionsCount reports them.
MaxDims == 2

\* try_extract calls on one DynOrtTensor.
MaxExtracts == 3
\* TensorPointerHolders the host constructs on their own.
MaxHolders == 3
\* Times the destructor of one TensorPointerHolder is run.
MaxDropRuns == 2

Hosts == 1..NumHosts
\* The host thread of the sequential specification Spec.
MainHost == CHOOSE t \in Hosts : \A u \in Hosts : t <= u

Null == 0

\* ------------------------------------------------------------ input sets

\* Model paths: whether the file exists, whether the path is valid UTF-8,
\* whether it holds an interior NUL byte.  A path with a NUL byte names no
\* file (the operating system refuses it), so it never exists.
Paths ==
    { [id |-> 1, exists |-> TRUE,  utf8 |-> TRUE,  nul |-> FALSE],
      [id |-> 2, exists |-> FALSE, utf8 |-> TRUE,  nul |-> FALSE],
      [id |-> 3, exists |-> TRUE,  utf8 |-> FALSE, nul |-> FALSE],
      [id |-> 4, exists |-> FALSE, utf8 |-> FALSE, nul |-> FALSE],
      [id |-> 5, exists |-> FALSE, utf8 |-> TRUE,  nul |-> TRUE] }

\* i16 values a caller can pass to with_number_threads.
NumThreadValues == {-32768, -1, 0, 1, 32767}

\* GraphOptimizationLevel ordinals.
OptLevels == {0, 1, 2, 99}

\* ONNXTensorElementDataType codes GetTensorElementType can write: 0 is
\* UNDEFINED, 1 is FLOAT, 17 is no member of the enum.
TypeCodes == {0, 1, 17}

\* The discriminants of TensorElementDataType: Float = 1 .. Bfloat16 = 16.
ElementTypeCodes == 1..16

\* A signed 64-bit integer is four 16-bit limbs, most significant first, in
\* two's complement; an unsigned 32-bit integer is two.
Limb == 65535
I64_224 == << 0, 0, 0, 224 >>
\* -1, which the engine reports for a dynamic dimension
I64_minus1 == << Limb, Limb, Limb, Limb >>
\* 2^32 + 5
I64_2p32plus5 == << 0, 1, 0, 5 >>
DimValues == { I64_224, I64_minus1, I64_2p32plus5 }
\* The shapes GetDimensions can write for n dimensions: plain sizes, with at
\* most one dimension that is dynamic or does not fit 32 bits.
DimSeqs(n) ==
    { s \in [1..n -> DimValues] :
        Cardinality({ j \in 1..n : s[j] # I64_224 }) <= 1 }

\* Element types of an output tensor and of the type a caller asks for.
ElemTypes == {"Float", "Int64", "String"}
\* Declared shapes of an output tensor.
Shapes == { << 2 >>, << 2, 3 >> }

\* What a native call that creates a handle can report: success with a
\* handle, success with a null out-pointer, or a non-success status.
NativeOutcomes == {"ok", "null", "err"}
\* What a native call without an out-pointer can report.
NativeStatuses == {"ok", "err"}
\* The diagnostic messages a non-success status can carry.
Diagnostics == {"invalid argument", "out of memory"}
\* No diagnostic: the status was success, or it was not looked at.
NoDiagnostic == "none"

\* ------------------------------------------------------------------ state

VARIABLES
    \* Shared engine environment (Arc<Mutex<NamedEnv>>)
    envHeld,        \* the host still holds its Env handle
    arcCount,       \* strong count of the Arc: owners of the environment
    lockHolder,     \* host holding the environment mutex, 0 when free
    \* SessionBuilder / build(), per host
    builder,        \* the builder's fields
    pc,             \* the host's position
    session_options_ptr,
    env_ptr,
    session_ptr,
    calls,          \* native calls made by the current build(), in order
    outcome,        \* what build() returned
    \* native side
    liveHandles,    \* handles allocated and not released
    nextId,         \* next fresh handle
    builds,         \* builders created so far
    destroyed,      \* Sessions that have been destroyed
    \* Session::read_inputs
    rpc,            \* position in read_inputs / read_input
    num_input_nodes,
    ri,             \* the index read_inputs is mapping over
    inputs,         \* the descriptors collected so far
    rresult,        \* what read_inputs returned
    input_name,
    typeinfo_ptr,
    tensor_info_ptr,
    input_type_sys,
    input_type,
    num_dims,
    input_node_dims,
    ret,            \* what the current read_input returned
    typeInfoLive,   \* type-information handles obtained and not released
    releaseLog,     \* the handles ReleaseTypeInfo was called on, in order
    nextTypeInfo,   \* next fresh type-information handle
    readLog,        \* the indices read_input was called with, in order
    countReport,    \* the status and count SessionGetInputCount reported
    \* DynOrtTensor, OrtOwnedTensor, TensorPointerHolder
    tensorAlive,    \* the DynOrtTensor exists
    tensor,         \* its data_type, shape and tensor_element_len
    tensor_ptr,     \* the field of its TensorPointerHolder
    memoryInfoAlive,
    valueLive,      \* output-value handles not released
    releaseValueLog,\* the pointers ReleaseValue was called on, in order
    views,          \* the OrtOwnedTensor views that exist
    extracts,       \* try_extract calls so far
    extractDataCalls,  \* extract_typed_data calls so far
    extractResult,  \* what the last try_extract returned
    lastRead,       \* the last read through a view
    lastExtract,    \* the type the last try_extract asked for, and what
                    \* extract_typed_data reported to it
    seen            \* the try_extract calls so far, each with its outcome

buildVars == << envHeld, arcCount, lockHolder, builder, pc, session_options_ptr,
                env_ptr, session_ptr, calls, outcome, liveHandles, nextId,
                builds, destroyed >>

readVars == << rpc, num_input_nodes, ri, inputs, rresult, input_name,
               typeinfo_ptr, tensor_info_ptr, input_type_sys, input_type,
               num_dims, input_node_dims, ret, typeInfoLive, releaseLog,
               nextTypeInfo, readLog, countReport >>

tensorVars == << tensorAlive, tensor, tensor_ptr, memoryInfoAlive, valueLive,
                 releaseValueLog, views, extracts, extractDataCalls,
                 extractResult, lastRead, lastExtract, seen >>

\* ---- TensorPointerHolder on its own
VARIABLES
    holders         \* per holder: whether it exists, its tensor_ptr field and
                    \* the runs of its destructor so far

holderVars == << holders >>

\* What the actions of the builder and of build() leave alone.
notBuild == << readVars, tensorVars, holderVars >>
\* What the actions of Session::read_inputs leave alone.
notRead == << buildVars, tensorVars, holderVars >>
\* What the actions on an output tensor leave alone.
notTensor == << buildVars, readVars, holderVars >>
\* What the actions on a TensorPointerHolder leave alone.
notHolder == << buildVars, readVars, tensorVars >>

vars == << buildVars, readVars, tensorVars, holderVars >>

\* The address of the native environment.
EnvHandle == 1
\* The process-wide default allocator GetAllocatorWithDefaultOptions returns.
DefaultAllocator == 2
FirstHandle == 3

\* SessionBuilder as constructed: no options override, default level, one
\* thread.
DefaultBuilder(p) ==
    [ options |-> FALSE, opt_level |-> 0, num_threads |-> 1,
      model_filename |-> p, use_cuda |-> FALSE ]

NoOutcome == [kind |-> "none"]
Panic == [kind |-> "panic"]
Err(e, p) == [kind |-> "err", err |-> e, filename |-> p, msg |-> NoDiagnostic]
\* struct Session { session_ptr, allocator_ptr }
Session(s, a) == [session_ptr |-> s, allocator_ptr |-> a]
Ok(s) == [kind |-> "ok", session |-> s]

NoPath == [id |-> 0, exists |-> FALSE, utf8 |-> TRUE, nul |-> FALSE]

\* A native call in the log of a build(): the function, its handle and value
\* arguments, the status it reported ("pending" until it returns) and what it
\* left in its out-pointer.
Call(f, h, v, st, out) ==
    [fn |-> f, h |-> h, val |-> v, status |-> st, out |-> out,
     msg |-> NoDiagnostic]

\* The call c as logged when the native function reported r, with
\* diagnostic d in its status if that was an error.
Reported(c, r, d) == IF r = "err" THEN [c EXCEPT !.msg = d] ELSE c

\* status_to_result: success for the null status, otherwise the error that
\* carries the diagnostic message read from the status.
status_to_result(r, d) ==
    IF r = "err" THEN [kind |-> "err", msg |-> d] ELSE [kind |-> "ok"]

\* The status a native call reports, of the three things it can do: succeed,
\* report success with a null out-pointer, report an error.
StatusOf(r) == IF r = "err" THEN "err" ELSE "ok"

BuildInit ==
    /\ envHeld = TRUE
    /\ arcCount = 1
    /\ lockHolder = 0
    /\ builder = [t \in Hosts |-> DefaultBuilder(NoPath)]
    /\ pc = [t \in Hosts |-> "idle"]
    /\ session_options_ptr = [t \in Hosts |-> Null]
    /\ env_ptr = [t \in Hosts |-> Null]
    /\ session_ptr = [t \in Hosts |-> Null]
    /\ calls = [t \in Hosts |-> << >>]
    /\ outcome = [t \in Hosts |-> NoOutcome]
    /\ liveHandles = {}
    /\ nextId = FirstHandle
    /\ builds = 0
    /\ destroyed = {}

ReadInit ==
    /\ rpc = "idle"
    /\ num_input_nodes = 0
    /\ ri = 0
    /\ inputs = << >>
    /\ rresult = NoOutcome
    /\ input_name = 0
    /\ typeinfo_ptr = Null
    /\ tensor_info_ptr = Null
    /\ input_type_sys = 0
    /\ input_type = 0
    /\ num_dims = 0
    /\ input_node_dims = << >>
    /\ ret = NoOutcome
    /\ typeInfoLive = {}
    /\ releaseLog = << >>
    /\ nextTypeInfo = 1
    /\ readLog = << >>
    /\ countReport = [status |-> "none", count |-> 0]

\* The output value Session::run hands to DynOrtTensor::new.
ValueHandle == 1

NoTensor == [data_type |-> "none", shape |-> << >>, tensor_element_len |-> 0]

TensorInit ==
    /\ tensorAlive = FALSE
    /\ tensor = NoTensor
    /\ tensor_ptr = Null
    /\ memoryInfoAlive = TRUE
    /\ valueLive = {}
    /\ releaseValueLog = << >>
    /\ views = {}
    /\ extracts = 0
    /\ extractDataCalls = 0
    /\ extractResult = NoOutcome
    /\ lastRead = [kind |-> "none"]
    /\ lastExtract = [requested |-> "none", report |-> "not_called"]
    /\ seen = {}

NoHolder == [state |-> "none", tensor_ptr |-> Null, drops |-> << >>]

HolderInit == holders = [i \in 1..MaxHolders |-> NoHolder]

Init == BuildInit /\ ReadInit /\ TensorInit /\ HolderInit

\* ------------------------------------------------------- SessionBuilder

Handle(k, i) == [kind |-> k, id |-> i]

\* Env::new_session_builder: a builder that shares the environment (a clone
\* of the Arc) for the model file p.
new_session_builder(t, p) ==
    /\ UNCHANGED notBuild
    /\ envHeld
    /\ pc[t] = "idle"
    /\ builds < MaxBuilds
    /\ builds' = builds + 1
    /\ arcCount' = arcCount + 1
    /\ builder' = [builder EXCEPT ![t] = DefaultBuilder(p)]
    /\ pc' = [pc EXCEPT ![t] = "configured"]
    /\ session_options_ptr' = [session_options_ptr EXCEPT ![t] = Null]
    /\ env_ptr' = [env_ptr EXCEPT ![t] = Null]
    /\ session_ptr' = [session_ptr EXCEPT ![t] = Null]
    /\ calls' = [calls EXCEPT ![t] = << >>]
    /\ UNCHANGED << envHeld, lockHolder, outcome, liveHandles, nextId, destroyed >>

\* The host drops its Env handle: one owner of the Arc fewer.
drop_Env ==
    /\ UNCHANGED notBuild
    /\ envHeld
    /\ envHeld' = FALSE
    /\ arcCount' = arcCount - 1
    /\ UNCHANGED << lockHolder, builder, pc, session_options_ptr, env_ptr,
                    session_ptr, calls, outcome, liveHandles, nextId, builds,
                    destroyed >>

Configure(t, b) ==
    /\ UNCHANGED notBuild
    /\ pc[t] = "configured"
    /\ builder' = [builder EXCEPT ![t] = b]
    /\ UNCHANGED << envHeld, arcCount, lockHolder, pc, session_options_ptr,
                    env_ptr, session_ptr, calls, outcome, liveHandles, nextId,
                    builds, destroyed >>

with_options(t) ==
    Configure(t, [builder[t] EXCEPT !.options = TRUE])

with_optimization_level(t, opt_level) ==
    Configure(t, [builder[t] EXCEPT !.opt_level = opt_level])

with_number_threads(t, num_threads) ==
    Configure(t, [builder[t] EXCEPT !.num_threads = num_threads])

\* with_cuda is unimplemented!(): it panics, and the unwinding drops the
\* builder it took by value.
with_cuda(t) ==
    /\ UNCHANGED notBuild
    /\ pc[t] = "configured"
    /\ pc' = [pc EXCEPT ![t] = "panicked"]
    /\ arcCount' = arcCount - 1
    /\ UNCHANGED << envHeld, lockHolder, builder, session_options_ptr, env_ptr,
                    session_ptr, calls, outcome, liveHandles, nextId, builds,
                    destroyed >>

\* ---------------------------------------------------------------- build()

\* build(self) returns (or unwinds): self, and with it the builder's Arc to
\* the environment, is dropped.  No native release function is called.
ExitBuild(t, out) ==
    /\ outcome' = [outcome EXCEPT ![t] = out]
    /\ pc' = [pc EXCEPT ![t] = "done"]
    /\ arcCount' = arcCount - 1

\* num_threads as i32: sign extension of an i16 keeps its value.
AsI32(n) == n

\* check_model_path without the to_str() test.
check_model_path_without_utf8(p) ==
    IF ~p.exists THEN "FileDoesNotExists"
    ELSE IF p.nul THEN "NulError"
    ELSE "ok"

\* check_model_path without the exists() test.
check_model_path_without_exists(p) ==
    IF ~p.utf8 THEN "NonUtf8Path"
    ELSE IF p.nul THEN "NulError"
    ELSE "ok"

\* The model path checks of build(), in the order the code makes them:
\* exists(), to_str(), CString::new.
check_model_path(p) ==
    IF ~p.exists THEN "FileDoesNotExists"
    ELSE IF ~p.utf8 THEN "NonUtf8Path"
    ELSE IF p.nul THEN "NulError"
    ELSE "ok"

\* map_err with the Allocator variant at every call.
NativeError_always_Allocator(f, e) ==
    [Err("Allocator", NoPath) EXCEPT !.msg = e.msg]

\* status_to_result(status).map_err(..) in build(): the variant of OrtError
\* that wraps the error e of native function f.
NativeError(f, e) ==
    [Err(IF f = "CreateSessionOptions" THEN "SessionOptions"
         ELSE IF f = "CreateSession" THEN "Session"
         ELSE "Allocator", NoPath) EXCEPT !.msg = e.msg]

\* The checks after a native call that fills an out-pointer, without the
\* assert on the pointer.
CheckNative_without_assert(r) ==
    IF r = "err" THEN "return_err" ELSE "continue"

\* The checks build() makes after a native call that fills an out-pointer:
\* status_to_result(status).map_err(..)?, assert_eq!(status, null),
\* assert_ne!(ptr, null).
CheckNative(r) ==
    IF r = "err" THEN "return_err"
    ELSE IF r = "null" THEN "panic"
    ELSE "continue"

\* CreateSessionOptions, its status check and asserts, and the match on
\* self.options.
build_CreateSessionOptions(t, r, d) ==
    /\ UNCHANGED notBuild
    /\ pc[t] = "configured"
    /\ LET ptr == IF r = "ok" THEN nextId ELSE Null
           c == CheckNative(r) IN
       /\ calls' = [calls EXCEPT ![t] =
             Append(@, Reported(Call("CreateSessionOptions", ptr, 0,
                                     StatusOf(r), ptr), r, d))]
       /\ session_options_ptr' = [session_options_ptr EXCEPT ![t] = ptr]
       /\ liveHandles' = IF r = "ok"
                         THEN liveHandles \cup {Handle("SessionOptions", ptr)}
                         ELSE liveHandles
       /\ nextId' = IF r = "ok" THEN nextId + 1 ELSE nextId
       /\ IF c = "return_err"
          THEN ExitBuild(t, NativeError("CreateSessionOptions",
                                        status_to_result(r, d)))
          ELSE IF c = "panic" THEN ExitBuild(t, Panic)
          ELSE IF builder[t].options THEN ExitBuild(t, Panic)
          ELSE /\ pc' = [pc EXCEPT ![t] = "set_options"]
               /\ UNCHANGED << outcome, arcCount >>
    /\ UNCHANGED << envHeld, lockHolder, builder, env_ptr, session_ptr, builds,
                    destroyed >>

\* build_SetOptions with the two setters called in the other order.
build_SetOptions_swapped(t, r1, r2) ==
    /\ UNCHANGED notBuild
    /\ pc[t] = "set_options"
    /\ calls' = [calls EXCEPT ![t] =
          @ \o << Call("SetSessionGraphOptimizationLevel", session_options_ptr[t],
                       builder[t].opt_level, r2, Null),
                  Call("SetIntraOpNumThreads", session_options_ptr[t],
                       AsI32(builder[t].num_threads), r1, Null) >>]
    /\ pc' = [pc EXCEPT ![t] = "lock_env"]
    /\ UNCHANGED << envHeld, arcCount, lockHolder, builder, session_options_ptr,
                    env_ptr, session_ptr, outcome, liveHandles, nextId, builds,
                    destroyed >>

\* SetIntraOpNumThreads and SetSessionGraphOptimizationLevel: the statuses
\* r1 and r2 they return are discarded.
build_SetOptions(t, r1, r2) ==
    /\ UNCHANGED notBuild
    /\ pc[t] = "set_options"
    /\ calls' = [calls EXCEPT ![t] =
          @ \o << Call("SetIntraOpNumThreads", session_options_ptr[t],
                       AsI32(builder[t].num_threads), r1, Null),
                  Call("SetSessionGraphOptimizationLevel", session_options_ptr[t],
                       builder[t].opt_level, r2, Null) >>]
    /\ pc' = [pc EXCEPT ![t] = "lock_env"]
    /\ UNCHANGED << envHeld, arcCount, lockHolder, builder, session_options_ptr,
                    env_ptr, session_ptr, outcome, liveHandles, nextId, builds,
                    destroyed >>

\* self.inner.lock(): the guard is a temporary of the statement that reads
\* env_ptr.
build_LockEnv(t) ==
    /\ UNCHANGED notBuild
    /\ pc[t] = "lock_env"
    /\ lockHolder = 0
    /\ lockHolder' = t
    /\ env_ptr' = [env_ptr EXCEPT ![t] = EnvHandle]
    /\ pc' = [pc EXCEPT ![t] = "unlock_env"]
    /\ UNCHANGED << envHeld, arcCount, builder, session_options_ptr, session_ptr,
                    calls, outcome, liveHandles, nextId, builds, destroyed >>

\* The end of that statement: the temporary MutexGuard is dropped.
build_UnlockEnv(t) ==
    /\ UNCHANGED notBuild
    /\ pc[t] = "unlock_env"
    /\ lockHolder' = 0
    /\ session_ptr' = [session_ptr EXCEPT ![t] = Null]
    /\ pc' = [pc EXCEPT ![t] = "check_path"]
    /\ UNCHANGED << envHeld, arcCount, builder, session_options_ptr, env_ptr,
                    calls, outcome, liveHandles, nextId, builds, destroyed >>

build_CheckPath(t) ==
    /\ UNCHANGED notBuild
    /\ pc[t] = "check_path"
    /\ LET p == builder[t].model_filename
           c == check_model_path(p) IN
       IF c = "ok" THEN
           /\ pc' = [pc EXCEPT ![t] = "create_session"]
           /\ UNCHANGED << outcome, arcCount >>
       ELSE
           ExitBuild(t, Err(c, IF c = "NulError" THEN NoPath ELSE p))
    /\ UNCHANGED << envHeld, lockHolder, builder, session_options_ptr, env_ptr,
                    session_ptr, calls, liveHandles, nextId, builds, destroyed >>

\* The thread enters the native CreateSession call.
build_CreateSession_call(t) ==
    /\ UNCHANGED notBuild
    /\ pc[t] = "create_session"
    /\ calls' = [calls EXCEPT ![t] =
          Append(@, Call("CreateSession", session_options_ptr[t], env_ptr[t],
                         "pending", Null))]
    /\ pc' = [pc EXCEPT ![t] = "in_CreateSession"]
    /\ UNCHANGED << envHeld, arcCount, lockHolder, builder, session_options_ptr,
                    env_ptr, session_ptr, outcome, liveHandles, nextId, builds,
                    destroyed >>

\* CreateSession returns; its status check and asserts.
build_CreateSession_return(t, r, d) ==
    /\ UNCHANGED notBuild
    /\ pc[t] = "in_CreateSession"
    /\ LET ptr == IF r = "ok" THEN nextId ELSE Null
           c == CheckNative(r) IN
       /\ calls' = [calls EXCEPT ![t] =
             [@ EXCEPT ![Len(@)] =
                 Reported([@ EXCEPT !.status = StatusOf(r), !.out = ptr], r, d)]]
       /\ session_ptr' = [session_ptr EXCEPT ![t] = ptr]
       /\ liveHandles' = IF r = "ok"
                         THEN liveHandles \cup {Handle("Session", ptr)}
                         ELSE liveHandles
       /\ nextId' = IF r = "ok" THEN nextId + 1 ELSE nextId
       /\ IF c = "return_err"
          THEN ExitBuild(t, NativeError("CreateSession", status_to_result(r, d)))
          ELSE IF c = "panic" THEN ExitBuild(t, Panic)
          ELSE /\ pc' = [pc EXCEPT ![t] = "get_allocator"]
               /\ UNCHANGED << outcome, arcCount >>
    /\ UNCHANGED << envHeld, lockHolder, builder, session_options_ptr, env_ptr,
                    builds, destroyed >>

\* GetAllocatorWithDefaultOptions, its status check and asserts, and
\* Ok(Session { session_ptr, allocator_ptr }).
build_GetAllocator(t, r, d) ==
    /\ UNCHANGED notBuild
    /\ pc[t] = "get_allocator"
    /\ LET ptr == IF r = "ok" THEN DefaultAllocator ELSE Null
           c == CheckNative(r) IN
       /\ calls' = [calls EXCEPT ![t] =
             Append(@, Reported(Call("GetAllocatorWithDefaultOptions", ptr, 0,
                                     StatusOf(r), ptr), r, d))]
       /\ liveHandles' = IF r = "ok"
                         THEN liveHandles \cup {Handle("Allocator", ptr)}
                         ELSE liveHandles
       /\ IF c = "return_err"
          THEN ExitBuild(t, NativeError("GetAllocatorWithDefaultOptions",
                                        status_to_result(r, d)))
          ELSE IF c = "panic" THEN ExitBuild(t, Panic)
          ELSE ExitBuild(t, Ok(Session(session_ptr[t], ptr)))
    /\ UNCHANGED << envHeld, lockHolder, builder, session_options_ptr, env_ptr,
                    session_ptr, nextId, builds, destroyed >>

\* The host is done with what build() returned.  A returned Session goes out
\* of scope here: Session has no Drop implementation, so destroying it runs
\* no code and releases nothing.
drop_result(t) ==
    /\ UNCHANGED notBuild
    /\ pc[t] \in {"done", "panicked"}
    /\ destroyed' = IF outcome[t].kind = "ok"
                    THEN destroyed \cup {outcome[t].session}
                    ELSE destroyed
    /\ outcome' = [outcome EXCEPT ![t] = NoOutcome]
    /\ pc' = [pc EXCEPT ![t] = "idle"]
    /\ UNCHANGED << envHeld, arcCount, lockHolder, builder, session_options_ptr,
                    env_ptr, session_ptr, calls, liveHandles, nextId, builds >>

\* One step of build() by host t.
build(t) ==
    \/ \E r \in NativeOutcomes, d \in Diagnostics :
          build_CreateSessionOptions(t, r, d)
    \/ \E r1, r2 \in NativeStatuses : build_SetOptions(t, r1, r2)
    \/ build_LockEnv(t)
    \/ build_UnlockEnv(t)
    \/ build_CheckPath(t)
    \/ build_CreateSession_call(t)
    \/ \E r \in NativeOutcomes, d \in Diagnostics :
          build_CreateSession_return(t, r, d)
    \/ \E r \in NativeOutcomes, d \in Diagnostics : build_GetAllocator(t, r, d)

\* A single host thread using the whole builder interface.
Next ==
    \/ \E p \in Paths : new_session_builder(MainHost, p)
    \/ with_options(MainHost)
    \/ \E l \in OptLevels : with_optimization_level(MainHost, l)
    \/ \E n \in NumThreadValues : with_number_threads(MainHost, n)
    \/ with_cuda(MainHost)
    \/ build(MainHost)
    \/ drop_result(MainHost)
    \/ drop_Env

Spec == Init /\ [][Next]_vars

\* Host threads building sessions from one environment at the same time,
\* each with the builder as constructed.
ConcPaths == {p \in Paths : p.id \in {1, 2}}

NextConc ==
    \/ \E t \in Hosts, p \in ConcPaths : new_session_builder(t, p)
    \/ \E t \in Hosts : build(t)
    \/ \E t \in Hosts : drop_result(t)
    \/ drop_Env

SpecConc == Init /\ [][NextConc]_vars

\* ------------------------------------------------- Session::read_inputs

\* struct Input { name, input_type, dimensions }
Input(n, ty, dims) == [name |-> n, input_type |-> ty, dimensions |-> dims]

\* The name the engine holds for input i.
NativeInputName(i) == i + 1

\* d as u32, for d: i64: the low 32 bits.
AsU32(d) == << d[3], d[4] >>

\* std::mem::transmute of the raw code to TensorElementDataType.  A code that
\* is a discriminant gives that member; any other code is undefined
\* behaviour, whose outcome is any value of the type's size.
transmute(code) ==
    IF code \in ElementTypeCodes THEN {code} ELSE TypeCodes \ {0}

\* read_input returns r to read_inputs.
ReturnFromReadInput(r) ==
    /\ ret' = r
    /\ rpc' = "collect"

\* read_inputs_count without the assert on the count.
read_inputs_count_without_assert(r, n) ==
    IF r = "err" THEN Err("Allocator", NoPath)
    ELSE [kind |-> "ok", count |-> n]

\* What read_inputs_count returns when SessionGetInputCount reports status r
\* and count n: map_err(OrtError::Allocator)?, assert_ne!(num_input_nodes, 0),
\* Ok(num_input_nodes).
read_inputs_count_result(r, n) ==
    IF r = "err" THEN Err("Allocator", NoPath)
    ELSE IF n = 0 THEN Panic
    ELSE [kind |-> "ok", count |-> n]

\* read_inputs calls read_inputs_count()?: SessionGetInputCount reports
\* status r and count n.
read_inputs_count(r, n) ==
    /\ UNCHANGED notRead
    /\ rpc = "idle"
    /\ countReport' = [status |-> r, count |-> n]
    /\ LET res == read_inputs_count_result(r, n) IN
       IF res.kind = "ok" THEN
           /\ num_input_nodes' = res.count
           /\ rpc' = "next"
           /\ UNCHANGED rresult
       ELSE
           /\ rresult' = res
           /\ rpc' = "returned"
           /\ UNCHANGED num_input_nodes
    /\ UNCHANGED << ri, inputs, input_name, typeinfo_ptr, tensor_info_ptr,
                    input_type_sys, input_type, num_dims, input_node_dims, ret,
                    typeInfoLive, releaseLog, nextTypeInfo, readLog >>

\* (0..num_input_nodes).map(|i| self.read_input(i)): the next index, or the
\* end of the range, where collect() returns the descriptors.
read_inputs_next ==
    /\ UNCHANGED notRead
    /\ UNCHANGED countReport
    /\ rpc = "next"
    /\ IF ri = num_input_nodes THEN
           /\ rresult' = [kind |-> "ok", inputs |-> inputs]
           /\ rpc' = "returned"
           /\ UNCHANGED << readLog, ret, input_name, typeinfo_ptr,
                           tensor_info_ptr, input_type_sys, input_type,
                           num_dims, input_node_dims >>
       ELSE
           /\ readLog' = Append(readLog, ri)
           /\ rpc' = "name"
           /\ ret' = NoOutcome
           /\ input_name' = 0
           /\ typeinfo_ptr' = Null
           /\ tensor_info_ptr' = Null
           /\ input_type_sys' = 0
           /\ input_type' = 0
           /\ num_dims' = 0
           /\ input_node_dims' = << >>
           /\ UNCHANGED rresult
    /\ UNCHANGED << num_input_nodes, ri, inputs, typeInfoLive, releaseLog,
                    nextTypeInfo >>

\* read_input_name: SessionGetInputName and char_p_to_string.
read_input_name(r) ==
    /\ UNCHANGED notRead
    /\ UNCHANGED countReport
    /\ rpc = "name"
    /\ IF r = "err" THEN
           ReturnFromReadInput(Err("InputName", NoPath)) /\ UNCHANGED input_name
       ELSE IF r = "null" THEN
           ReturnFromReadInput(Panic) /\ UNCHANGED input_name
       ELSE IF r = "bad_string" THEN
           ReturnFromReadInput(Err("StringConversion", NoPath)) /\ UNCHANGED input_name
       ELSE
           /\ input_name' = NativeInputName(ri)
           /\ rpc' = "typeinfo"
           /\ UNCHANGED ret
    /\ UNCHANGED << num_input_nodes, ri, inputs, rresult, typeinfo_ptr,
                    tensor_info_ptr, input_type_sys, input_type, num_dims,
                    input_node_dims, typeInfoLive, releaseLog, nextTypeInfo,
                    readLog >>

read_input_SessionGetInputTypeInfo(r) ==
    /\ UNCHANGED notRead
    /\ UNCHANGED countReport
    /\ rpc = "typeinfo"
    /\ IF r = "err" THEN
           /\ ReturnFromReadInput(Err("InputName", NoPath))
           /\ UNCHANGED << typeinfo_ptr, typeInfoLive, nextTypeInfo >>
       ELSE IF r = "null" THEN
           /\ ReturnFromReadInput(Panic)
           /\ UNCHANGED << typeinfo_ptr, typeInfoLive, nextTypeInfo >>
       ELSE
           /\ typeinfo_ptr' = nextTypeInfo
           /\ typeInfoLive' = typeInfoLive \cup {nextTypeInfo}
           /\ nextTypeInfo' = nextTypeInfo + 1
           /\ rpc' = "cast"
           /\ UNCHANGED ret
    /\ UNCHANGED << num_input_nodes, ri, inputs, rresult, input_name,
                    tensor_info_ptr, input_type_sys, input_type, num_dims,
                    input_node_dims, releaseLog, readLog >>

read_input_CastTypeInfoToTensorInfo(r) ==
    /\ UNCHANGED notRead
    /\ UNCHANGED countReport
    /\ rpc = "cast"
    /\ IF r = "err" THEN
           ReturnFromReadInput(Err("InputName", NoPath)) /\ UNCHANGED tensor_info_ptr
       ELSE IF r = "null" THEN
           ReturnFromReadInput(Panic) /\ UNCHANGED tensor_info_ptr
       ELSE
           /\ tensor_info_ptr' = typeinfo_ptr
           /\ rpc' = "element_type"
           /\ UNCHANGED ret
    /\ UNCHANGED << num_input_nodes, ri, inputs, rresult, input_name,
                    typeinfo_ptr, input_type_sys, input_type, num_dims,
                    input_node_dims, typeInfoLive, releaseLog, nextTypeInfo,
                    readLog >>

\* GetTensorElementType writes code; ty is what the transmute yields.
read_input_GetTensorElementType(r, code, ty) ==
    /\ UNCHANGED notRead
    /\ UNCHANGED countReport
    /\ rpc = "element_type"
    /\ IF r = "err" THEN
           /\ ReturnFromReadInput(Err("InputName", NoPath))
           /\ UNCHANGED << input_type_sys, input_type >>
       ELSE IF code = 0 THEN
           /\ input_type_sys' = code
           /\ ReturnFromReadInput(Panic)
           /\ UNCHANGED input_type
       ELSE
           /\ input_type_sys' = code
           /\ ty \in transmute(code)
           /\ input_type' = ty
           /\ rpc' = "dims_count"
           /\ UNCHANGED ret
    /\ UNCHANGED << num_input_nodes, ri, inputs, rresult, input_name,
                    typeinfo_ptr, tensor_info_ptr, num_dims, input_node_dims,
                    typeInfoLive, releaseLog, nextTypeInfo, readLog >>

read_input_GetDimensionsCount(r, n) ==
    /\ UNCHANGED notRead
    /\ UNCHANGED countReport
    /\ rpc = "dims_count"
    /\ IF r = "err" THEN
           ReturnFromReadInput(Err("InputName", NoPath)) /\ UNCHANGED num_dims
       ELSE IF n = 0 THEN
           /\ num_dims' = n
           /\ ReturnFromReadInput(Panic)
       ELSE
           /\ num_dims' = n
           /\ rpc' = "dims"
           /\ UNCHANGED ret
    /\ UNCHANGED << num_input_nodes, ri, inputs, rresult, input_name,
                    typeinfo_ptr, tensor_info_ptr, input_type_sys, input_type,
                    input_node_dims, typeInfoLive, releaseLog, nextTypeInfo,
                    readLog >>

\* GetDimensions fills the buffer with dims; then ReleaseTypeInfo and
\* Ok(Input { .. }) with each dimension converted by `as u32`.
read_input_GetDimensions(r, dims) ==
    /\ UNCHANGED notRead
    /\ UNCHANGED countReport
    /\ rpc = "dims"
    /\ IF r = "err" THEN
           /\ ReturnFromReadInput(Err("InputName", NoPath))
           /\ UNCHANGED << input_node_dims, typeInfoLive, releaseLog >>
       ELSE
           /\ input_node_dims' = dims
           /\ typeInfoLive' = typeInfoLive \ {typeinfo_ptr}
           /\ releaseLog' = Append(releaseLog, typeinfo_ptr)
           /\ ReturnFromReadInput(
                 [kind |-> "ok",
                  input |-> Input(input_name, input_type,
                                  [j \in 1..Len(dims) |-> AsU32(dims[j])])])
    /\ UNCHANGED << num_input_nodes, ri, inputs, rresult, input_name,
                    typeinfo_ptr, tensor_info_ptr, input_type_sys, input_type,
                    num_dims, nextTypeInfo, readLog >>

\* collect() that goes on to the next index after an error.
read_inputs_collect_all ==
    /\ UNCHANGED notRead
    /\ UNCHANGED countReport
    /\ rpc = "collect"
    /\ IF ret.kind = "ok" THEN
           /\ inputs' = Append(inputs, ret.input)
           /\ UNCHANGED rresult
       ELSE
           /\ rresult' = ret
           /\ UNCHANGED inputs
    /\ ri' = ri + 1
    /\ rpc' = "next"
    /\ UNCHANGED << num_input_nodes, input_name, typeinfo_ptr, tensor_info_ptr,
                    input_type_sys, input_type, num_dims, input_node_dims, ret,
                    typeInfoLive, releaseLog, nextTypeInfo, readLog >>

\* collect() that puts each descriptor in front of the earlier ones.
read_inputs_collect_reversed ==
    /\ UNCHANGED notRead
    /\ UNCHANGED countReport
    /\ rpc = "collect"
    /\ IF ret.kind = "ok" THEN
           /\ inputs' = << ret.input >> \o inputs
           /\ ri' = ri + 1
           /\ rpc' = "next"
           /\ UNCHANGED rresult
       ELSE
           /\ rresult' = ret
           /\ rpc' = "returned"
           /\ UNCHANGED << inputs, ri >>
    /\ UNCHANGED << num_input_nodes, input_name, typeinfo_ptr, tensor_info_ptr,
                    input_type_sys, input_type, num_dims, input_node_dims, ret,
                    typeInfoLive, releaseLog, nextTypeInfo, readLog >>

\* collect::<Result<Vec<Input>>>() takes what read_input returned: a
\* descriptor is pushed, the first error ends the iteration and is returned.
read_inputs_collect ==
    /\ UNCHANGED notRead
    /\ UNCHANGED countReport
    /\ rpc = "collect"
    /\ IF ret.kind = "ok" THEN
           /\ inputs' = Append(inputs, ret.input)
           /\ ri' = ri + 1
           /\ rpc' = "next"
           /\ UNCHANGED rresult
       ELSE
           /\ rresult' = ret
           /\ rpc' = "returned"
           /\ UNCHANGED << inputs, ri >>
    /\ UNCHANGED << num_input_nodes, input_name, typeinfo_ptr, tensor_info_ptr,
                    input_type_sys, input_type, num_dims, input_node_dims, ret,
                    typeInfoLive, releaseLog, nextTypeInfo, readLog >>

NextRead ==
    \/ \E r \in NativeStatuses, n \in 0..MaxInputs : read_inputs_count(r, n)
    \/ read_inputs_next
    \/ \E r \in NativeOutcomes \cup {"bad_string"} : read_input_name(r)
    \/ \E r \in NativeOutcomes : read_input_SessionGetInputTypeInfo(r)
    \/ \E r \in NativeOutcomes : read_input_CastTypeInfoToTensorInfo(r)
    \/ \E r \in NativeStatuses, code \in TypeCodes, ty \in TypeCodes :
          read_input_GetTensorElementType(r, code, ty)
    \/ \E r \in NativeStatuses, n \in 0..MaxDims :
          read_input_GetDimensionsCount(r, n)
    \/ \E r \in NativeStatuses, dims \in DimSeqs(num_dims) :
          read_input_GetDimensions(r, dims)
    \/ read_inputs_collect

SpecRead == Init /\ [][NextRead]_vars

\* ------------------------------------------ DynOrtTensor / OrtOwnedTensor

RECURSIVE Product(_)
\* The element count a shape implies.
Product(shape) ==
    IF shape = << >> THEN 1 ELSE Head(shape) * Product(Tail(shape))

\* DynOrtTensor::new, as Session::run calls it for an output value: the
\* TensorData holds the TensorPointerHolder of the value.
DynOrtTensor_new(data_type, shape) ==
    /\ UNCHANGED notTensor
    /\ ~tensorAlive
    /\ memoryInfoAlive
    /\ tensor_ptr = Null
    /\ releaseValueLog = << >>
    /\ tensorAlive' = TRUE
    /\ tensor' = [data_type |-> data_type, shape |-> shape,
                  tensor_element_len |-> Product(shape)]
    /\ tensor_ptr' = ValueHandle
    /\ valueLive' = valueLive \cup {ValueHandle}
    /\ UNCHANGED << memoryInfoAlive, releaseValueLog, views, extracts,
                    extractDataCalls, extractResult, lastRead, lastExtract,
                    seen >>

\* T::extract_typed_data(shape, &tensor_data) when it succeeds: the typed
\* data of the tensor.  A numeric type is viewed in place, in the memory of
\* the output value ptr; strings are a container the host owns.
extract_typed_data(T, shape, ptr) ==
    [ elem |-> T, shape |-> shape, len |-> Product(shape),
      backing |-> IF T = "String" THEN Null ELSE ptr ]

\* OrtOwnedTensor::new with the shape flattened to one dimension.
OrtOwnedTensor_new_flat(id, data) ==
    [ id |-> id, elem |-> data.elem, shape |-> << data.len >>,
      len |-> data.len, backing |-> data.backing ]

\* OrtOwnedTensor::new(data): array_view.view() (or strings.view()), a view
\* of the same elements with the same shape.
OrtOwnedTensor_new(id, data) ==
    [ id |-> id, elem |-> data.elem, shape |-> data.shape,
      len |-> data.len, backing |-> data.backing ]

\* DataTypeMismatch with its two fields exchanged.
DataTypeMismatch_swapped(actual, requested) ==
    [ kind |-> "err", err |-> "DataTypeMismatch",
      actual |-> requested, requested |-> actual ]

\* TensorExtractError::DataTypeMismatch { actual, requested }
DataTypeMismatch(actual, requested) ==
    [ kind |-> "err", err |-> "DataTypeMismatch",
      actual |-> actual, requested |-> requested ]

\* TensorExtractError::OrtError, from the `?` on extract_typed_data.
ExtractOrtError == [kind |-> "err", err |-> "OrtError"]

\* What a try_extract outcome says about the data, whichever view carries it.
Equivalent(res) ==
    IF res.kind = "ok"
    THEN [ kind |-> "ok", elem |-> res.view.elem, shape |-> res.view.shape,
           len |-> res.view.len, backing |-> res.view.backing ]
    ELSE res

\* What try_extract::<T>() returns and records, r being what
\* extract_typed_data reports when it is called.
TryExtractOutcome(T, r) ==
    /\ extracts' = extracts + 1
    /\ IF tensor.data_type # T THEN
           /\ extractResult' = DataTypeMismatch(tensor.data_type, T)
           /\ lastExtract' = [requested |-> T, report |-> "not_called"]
           /\ UNCHANGED << views, extractDataCalls >>
       ELSE
           /\ extractDataCalls' = extractDataCalls + 1
           /\ lastExtract' = [requested |-> T, report |-> r]
           /\ IF r = "err" THEN
                  /\ extractResult' = ExtractOrtError
                  /\ UNCHANGED views
              ELSE
                  LET v == OrtOwnedTensor_new(extracts + 1,
                              extract_typed_data(T, tensor.shape, tensor_ptr)) IN
                  /\ extractResult' = [kind |-> "ok", view |-> v]
                  /\ views' = views \cup {v}
    /\ seen' = seen \cup { << lastExtract', Equivalent(extractResult') >> }

\* try_extract taking self by value: the DynOrtTensor is consumed by the
\* call and its TensorPointerHolder dropped.
try_extract_consuming(T, r) ==
    /\ UNCHANGED notTensor
    /\ tensorAlive
    /\ extracts < MaxExtracts
    /\ TryExtractOutcome(T, r)
    /\ tensorAlive' = FALSE
    /\ releaseValueLog' = Append(releaseValueLog, tensor_ptr)
    /\ valueLive' = valueLive \ {tensor_ptr}
    /\ tensor_ptr' = Null
    /\ UNCHANGED << tensor, memoryInfoAlive, lastRead >>

\* try_extract::<T>(&self): r is what extract_typed_data reports.
try_extract(T, r) ==
    /\ UNCHANGED notTensor
    /\ tensorAlive
    /\ extracts < MaxExtracts
    /\ TryExtractOutcome(T, r)
    /\ UNCHANGED << tensorAlive, tensor, tensor_ptr, memoryInfoAlive, valueLive,
                    releaseValueLog, lastRead >>

\* Whether the lifetimes try_extract declares let the DynOrtTensor be dropped
\* while the views in vs exist: the view's lifetime 'array is bound by
\* 'm: 'array alone, not by the borrow of self, so they always do.
MayDropTensor(vs) == TRUE

\* The host reads the elements of a view through Deref.
read_view(v) ==
    /\ UNCHANGED notTensor
    /\ v \in views
    /\ memoryInfoAlive
    /\ lastRead' = [kind |-> "read", view |-> v.id,
                    released |-> v.backing # Null /\ v.backing \notin valueLive]
    /\ UNCHANGED << tensorAlive, tensor, tensor_ptr, memoryInfoAlive, valueLive,
                    releaseValueLog, views, extracts, extractDataCalls,
                    extractResult, lastExtract, seen >>

\* A view goes out of scope.
drop_view(v) ==
    /\ UNCHANGED notTensor
    /\ v \in views
    /\ views' = views \ {v}
    /\ UNCHANGED << tensorAlive, tensor, tensor_ptr, memoryInfoAlive, valueLive,
                    releaseValueLog, extracts, extractDataCalls, extractResult,
                    lastRead, lastExtract, seen >>

\* A destructor that forgets the ReleaseValue call.
ReleaseValueCalls_none(ptr) == << >>

\* impl Drop for TensorPointerHolder: the pointers it passes to the native
\* ReleaseValue, in order, when the field holds ptr.
ReleaseValueCalls(ptr) == << ptr >>

\* impl Drop for TensorPointerHolder: the field after the destructor.
PtrAfterDrop(ptr) == Null

\* The DynOrtTensor goes out of scope, and with it its TensorPointerHolder:
\* impl Drop for TensorPointerHolder calls ReleaseValue(tensor_ptr) and sets
\* tensor_ptr to null.
drop_DynOrtTensor ==
    /\ UNCHANGED notTensor
    /\ tensorAlive
    /\ MayDropTensor(views)
    /\ tensorAlive' = FALSE
    /\ releaseValueLog' = releaseValueLog \o ReleaseValueCalls(tensor_ptr)
    /\ valueLive' = valueLive \ {tensor_ptr}
    /\ tensor_ptr' = PtrAfterDrop(tensor_ptr)
    /\ UNCHANGED << tensor, memoryInfoAlive, views, extracts, extractDataCalls,
                    extractResult, lastRead, lastExtract, seen >>

\* The MemoryInfo goes out of scope: it outlives the DynOrtTensor that
\* borrows it ('m) and every view ('m: 'array).
drop_MemoryInfo ==
    /\ UNCHANGED notTensor
    /\ memoryInfoAlive
    /\ ~tensorAlive
    /\ views = {}
    /\ memoryInfoAlive' = FALSE
    /\ UNCHANGED << tensorAlive, tensor, tensor_ptr, valueLive, releaseValueLog,
                    views, extracts, extractDataCalls, extractResult, lastRead,
                    lastExtract, seen >>

NextTensor ==
    \/ \E ty \in ElemTypes, sh \in Shapes : DynOrtTensor_new(ty, sh)
    \/ \E T \in ElemTypes, r \in NativeStatuses : try_extract(T, r)
    \/ \E v \in views : read_view(v)
    \/ \E v \in views : drop_view(v)
    \/ drop_DynOrtTensor
    \/ drop_MemoryInfo

SpecTensor == Init /\ [][NextTensor]_vars

\* ------------------------------------------------- TensorPointerHolder

\* One run of impl Drop for TensorPointerHolder on holder h: the ReleaseValue
\* calls it makes are recorded with the tensor_ptr it found.
RunDrop(h) ==
    [ state |-> "dropped",
      tensor_ptr |-> PtrAfterDrop(h.tensor_ptr),
      drops |-> Append(h.drops, [ tensor_ptr |-> h.tensor_ptr,
                                  calls |-> ReleaseValueCalls(h.tensor_ptr) ]) ]

\* TensorPointerHolder { tensor_ptr }: the field is pub(crate), so the crate
\* constructs a holder around any pointer, the null one included.
TensorPointerHolder_new(i, ptr) ==
    /\ UNCHANGED notHolder
    /\ holders[i].state = "none"
    /\ holders' = [holders EXCEPT ![i] =
                      [state |-> "live", tensor_ptr |-> ptr, drops |-> << >>]]

\* The holder goes out of scope.
TensorPointerHolder_drop(i) ==
    /\ UNCHANGED notHolder
    /\ holders[i].state = "live"
    /\ holders' = [holders EXCEPT ![i] = RunDrop(holders[i])]

\* The destructor is run on a holder that was destroyed before, as
\* ptr::drop_in_place or ManuallyDrop::drop allow.
TensorPointerHolder_drop_again(i) ==
    /\ UNCHANGED notHolder
    /\ holders[i].state = "dropped"
    /\ Len(holders[i].drops) < MaxDropRuns
    /\ holders' = [holders EXCEPT ![i] = RunDrop(holders[i])]

NextHolder ==
    \/ \E i \in 1..MaxHolders : \E ptr \in {Null, i} :
           TensorPointerHolder_new(i, ptr)
    \/ \E i \in 1..MaxHolders : TensorPointerHolder_drop(i)
    \/ \E i \in 1..MaxHolders : TensorPointerHolder_drop_again(i)

SpecHolder == Init /\ [][NextHolder]_vars

\* ================================================================ claims

\* Whether build() of host t has made the native call f.
Called(t, f) == \E i \in 1..Len(calls[t]) : calls[t][i].fn = f

\* How often h occurs in the log.
Count(log, h) == Cardinality({ i \in 1..Len(log) : log[i] = h })

\* ZeroExtend(e) = d: the u32 e and the i64 d are the same number.
ZeroExtend(e) == << 0, 0, e[1], e[2] >>
\* d < 0, for d: i64.
IsNegative(d) == d[1] >= 32768

\* C1, as stated: every build() on a model path that does not exist returns
\* FileDoesNotExists carrying the builder's path and never calls
\* CreateSession.
C1_MissingFileAlwaysFileDoesNotExists ==
    \A t \in Hosts :
        (pc[t] = "done" /\ ~builder[t].model_filename.exists) =>
            /\ outcome[t] = Err("FileDoesNotExists", builder[t].model_filename)
            /\ ~Called(t, "CreateSession")

\* C1, amended: a build() on a model path that does not exist never calls
\* CreateSession, and when CreateSessionOptions gave it an options handle and
\* the builder holds no options override it returns FileDoesNotExists
\* carrying exactly the builder's model path.
C1_MissingFile ==
    \A t \in Hosts :
        (pc[t] \in {"done", "create_session", "in_CreateSession", "get_allocator"}
            /\ ~builder[t].model_filename.exists) =>
            /\ ~Called(t, "CreateSession")
            /\ pc[t] = "done"
            /\ (session_options_ptr[t] # Null /\ ~builder[t].options) =>
                   outcome[t] = Err("FileDoesNotExists", builder[t].model_filename)

\* C1: a build() that got its options handle has returned FileDoesNotExists
\* for a missing model file.
C1_Witness ==
    \E t \in Hosts :
        /\ pc[t] = "done"
        /\ ~builder[t].model_filename.exists
        /\ session_options_ptr[t] # Null
        /\ ~builder[t].options
        /\ outcome[t] = Err("FileDoesNotExists", builder[t].model_filename)

\* C2: no view returned by try_extract is read after the output value that
\* backs it has been released.
C2_NoReadAfterRelease ==
    lastRead.kind = "read" => ~lastRead.released

\* C3: while a Session returned by build() exists, the environment it was
\* created with still has an owner.
C3_EnvironmentOutlivesSession ==
    \A t \in Hosts : outcome[t].kind = "ok" => arcCount >= 1

\* C4: a thread inside the native CreateSession call holds the environment
\* mutex, so no two threads are inside CreateSession at the same time.
C4_CreateSessionUnderLock ==
    /\ \A t \in Hosts : pc[t] = "in_CreateSession" => lockHolder = t
    /\ \A t, u \in Hosts :
          (pc[t] = "in_CreateSession" /\ pc[u] = "in_CreateSession") => t = u

\* C5: when read_input returns, by success or by an error return, a
\* type-information handle it obtained has been passed to ReleaseTypeInfo
\* exactly once.
C5_TypeInfoReleasedOnce ==
    (rpc = "collect" /\ ret.kind \in {"ok", "err"} /\ typeinfo_ptr # Null) =>
        Count(releaseLog, typeinfo_ptr) = 1

\* C6: when build() returns a Session, the session-options handle that call
\* allocated is no longer allocated.
C6_OptionsReleasedOnSuccess ==
    \A t \in Hosts :
        outcome[t].kind = "ok" =>
            Handle("SessionOptions", session_options_ptr[t]) \notin liveHandles

\* C7: when build() returns an error, no handle it acquired in that call is
\* still allocated: neither the session-options handle nor the session
\* handle.
C7_HandlesReleasedOnError ==
    \A t \in Hosts :
        (pc[t] = "done" /\ outcome[t].kind = "err") =>
            /\ Handle("SessionOptions", session_options_ptr[t]) \notin liveHandles
            /\ Handle("Session", session_ptr[t]) \notin liveHandles

\* C8: the session handle and the allocator handle of a destroyed Session
\* have been released.
C8_SessionDropReleasesHandles ==
    \A s \in destroyed :
        /\ Handle("Session", s.session_ptr) \notin liveHandles
        /\ Handle("Allocator", s.allocator_ptr) \notin liveHandles

\* C9: for an element-type code that is no member of the enum, read_input
\* returns a type-decode error; it returns a descriptor only for a code that
\* is a member.
C9_UnknownTypeCodeRejected ==
    (rpc = "collect" /\ input_type_sys # 0) =>
        /\ input_type_sys \notin ElementTypeCodes =>
               (ret.kind = "err" /\ ret.err = "TypeDecode")
        /\ ret.kind = "ok" => input_type_sys \in ElementTypeCodes

\* C10: the descriptor read_input returns has as many dimensions as the
\* engine reported, and every non-negative size the engine reported is in it
\* unchanged (a negative one may be whatever marks a dynamic dimension).
C10_DimensionsPreserved ==
    (rpc = "collect" /\ ret.kind = "ok") =>
        /\ Len(ret.input.dimensions) = num_dims
        /\ \A j \in 1..Len(input_node_dims) :
              \/ IsNegative(input_node_dims[j])
              \/ ZeroExtend(ret.input.dimensions[j]) = input_node_dims[j]

\* C11: a try_extract::<T>() on a tensor whose element type is not T returns
\* DataTypeMismatch with actual the tensor's type and requested T, and makes
\* neither an extract_typed_data call nor a native call.
C11_MismatchReported ==
    [][ (extracts' = extracts + 1 /\ lastExtract'.requested # tensor.data_type) =>
            /\ extractResult'.kind = "err"
            /\ extractResult'.err = "DataTypeMismatch"
            /\ extractResult'.actual = tensor.data_type
            /\ extractResult'.requested = lastExtract'.requested
            /\ extractDataCalls' = extractDataCalls
            /\ releaseValueLog' = releaseValueLog
            /\ valueLive' = valueLive ]_vars

C11_Witness ==
    /\ extractResult.kind = "err"
    /\ extractResult.err = "DataTypeMismatch"
    /\ extractResult.actual = tensor.data_type
    /\ extractResult.requested # tensor.data_type

\* C12 as stated: a try_extract for the tensor's own element type succeeds,
\* and its view has the declared shape and the product of the dimensions as
\* element count.
C12_MatchingTypeAlwaysSucceeds ==
    (lastExtract.requested = tensor.data_type /\ tensor # NoTensor) =>
        /\ extractResult.kind = "ok"
        /\ extractResult.view.shape = tensor.shape
        /\ extractResult.view.len = Product(tensor.shape)

\* C12: a try_extract for the tensor's own element type returns OrtError when
\* extract_typed_data reports an error, and otherwise succeeds with a view
\* that has the declared shape and the product of the dimensions as element
\* count.
C12_MatchingType ==
    (lastExtract.requested = tensor.data_type /\ tensor # NoTensor) =>
        IF lastExtract.report = "err"
        THEN extractResult = ExtractOrtError
        ELSE /\ extractResult.kind = "ok"
             /\ extractResult.view.elem = tensor.data_type
             /\ extractResult.view.shape = tensor.shape
             /\ extractResult.view.len = Product(tensor.shape)
             /\ extractResult.view.len = tensor.tensor_element_len

C12_Witness ==
    /\ lastExtract = [requested |-> tensor.data_type, report |-> "ok"]
    /\ extractResult.kind = "ok"
    /\ Len(extractResult.view.shape) = 2

\* What C13 says of every try_extract call: the tensor keeps its type, shape,
\* length and data, and its value handle is not released.
TensorUntouched ==
    /\ tensorAlive' = tensorAlive
    /\ tensor' = tensor
    /\ tensor_ptr' = tensor_ptr
    /\ valueLive' = valueLive
    /\ releaseValueLog' = releaseValueLog

\* C13 as stated: try_extract leaves the tensor as it was, and returns what
\* every earlier try_extract for the same type returned.
C13_SameTypeSameOutcome ==
    [][ extracts' = extracts + 1 =>
            /\ TensorUntouched
            /\ \A p \in seen :
                   p[1].requested = lastExtract'.requested =>
                       p[2] = Equivalent(extractResult') ]_vars

\* C13: try_extract leaves the tensor as it was, and returns what every
\* earlier try_extract for the same type returned to which extract_typed_data
\* reported the same status.
C13_NotConsumed ==
    [][ extracts' = extracts + 1 =>
            /\ TensorUntouched
            /\ \A p \in seen :
                   p[1] = lastExtract' => p[2] = Equivalent(extractResult') ]_vars

C13_Witness ==
    /\ extracts >= 2
    /\ tensorAlive
    /\ Cardinality(seen) < extracts
    /\ extractResult.kind = "ok"

\* C14: the value handle of a TensorPointerHolder is passed to ReleaseValue
\* exactly once, when the holder is destroyed and not before, and tensor_ptr
\* is null afterwards.
C14_ReleasedOnceAtDrop ==
    /\ tensorAlive =>
           /\ tensor_ptr = ValueHandle
           /\ Count(releaseValueLog, ValueHandle) = 0
    /\ (~tensorAlive /\ tensor # NoTensor) =>
           /\ Count(releaseValueLog, ValueHandle) = 1
           /\ Len(releaseValueLog) = 1
           /\ tensor_ptr = Null

C14_Witness ==
    /\ ~tensorAlive
    /\ tensor # NoTensor
    /\ releaseValueLog = << ValueHandle >>
    /\ ValueHandle \notin valueLive

\* C15: a run of the destructor of a TensorPointerHolder that finds
\* tensor_ptr null makes no ReleaseValue call.
C15_DropOfReleasedIsNoOp ==
    \A i \in 1..MaxHolders :
        \A k \in 1..Len(holders[i].drops) :
            holders[i].drops[k].tensor_ptr = Null =>
                holders[i].drops[k].calls = << >>

\* C16: the thread count of every SetIntraOpNumThreads call of build() is
\* in 1..32767.
C16_ThreadCountPositive ==
    \A t \in Hosts :
        \A i \in 1..Len(calls[t]) :
            calls[t][i].fn = "SetIntraOpNumThreads" =>
                calls[t][i].val \in 1..32767

\* C17: a native call of build() that reported a non-success status is the
\* last native call of that build(), and the build() returned an error.
C17_EveryStatusChecked ==
    \A t \in Hosts :
        \A i \in 1..Len(calls[t]) :
            (pc[t] # "idle" /\ calls[t][i].status = "err") =>
                /\ i = Len(calls[t])
                /\ pc[t] = "done"
                /\ outcome[t].kind = "err"

\* The native calls of build() that fill an out-pointer with a handle.
CreatingCalls ==
    {"CreateSessionOptions", "CreateSession", "GetAllocatorWithDefaultOptions"}

\* C18: the Session a build() returns has a non-null session handle and a
\* non-null allocator handle, and a build() to which a native call reported
\* success with a null out-pointer has panicked.
C18_NoNullHandleInSession ==
    \A t \in Hosts :
        pc[t] = "done" =>
            /\ outcome[t].kind = "ok" =>
                   /\ outcome[t].session.session_ptr # Null
                   /\ outcome[t].session.allocator_ptr # Null
            /\ (\E i \in 1..Len(calls[t]) :
                    /\ calls[t][i].fn \in CreatingCalls
                    /\ calls[t][i].status = "ok"
                    /\ calls[t][i].out = Null) => outcome[t] = Panic

C18_Witness ==
    \E t \in Hosts :
        /\ pc[t] = "done"
        /\ outcome[t] = Panic
        /\ Called(t, "CreateSession")
        /\ calls[t][Len(calls[t])].status = "ok"
        /\ calls[t][Len(calls[t])].out = Null

\* C19: read_inputs_count returns the Allocator error when
\* SessionGetInputCount reports a non-success status, panics when it reports
\* success with a count of zero, and otherwise returns the count reported,
\* which is at least 1.
C19_InputCount ==
    /\ countReport.status = "err" =>
           (rpc = "returned" /\ rresult = Err("Allocator", NoPath))
    /\ (countReport.status = "ok" /\ countReport.count = 0) =>
           (rpc = "returned" /\ rresult = Panic)
    /\ (countReport.status = "ok" /\ countReport.count # 0) =>
           (num_input_nodes = countReport.count /\ num_input_nodes >= 1)
    /\ rpc \in {"next", "name", "typeinfo", "cast", "element_type", "dims_count",
                "dims", "collect"} => num_input_nodes >= 1

C19_Witness ==
    /\ countReport = [status |-> "ok", count |-> 0]
    /\ rpc = "returned"
    /\ rresult = Panic

\* Whether a path is not representable as the text the native call takes.
NotRepresentable(p) == ~p.utf8 \/ p.nul

\* C20 as stated: a build() on an existing model path that is not
\* representable returns an error without calling CreateSession, and for a
\* path that is not UTF-8 the error is NonUtf8Path carrying the path.
C20_NonRepresentableAlwaysRejected ==
    \A t \in Hosts :
        (pc[t] = "done" /\ builder[t].model_filename.exists
            /\ NotRepresentable(builder[t].model_filename)) =>
            /\ ~Called(t, "CreateSession")
            /\ outcome[t].kind = "err"
            /\ ~builder[t].model_filename.utf8 =>
                   outcome[t] = Err("NonUtf8Path", builder[t].model_filename)

\* C20, amended: a build() on an existing model path that is not
\* representable never calls CreateSession and returns no Session, and when
\* CreateSessionOptions gave it an options handle and the builder holds no
\* options override it returns an error, which for a path that is not UTF-8
\* is NonUtf8Path carrying the path.
C20_NonRepresentablePath ==
    \A t \in Hosts :
        (pc[t] \in {"done", "create_session", "in_CreateSession", "get_allocator"}
            /\ builder[t].model_filename.exists
            /\ NotRepresentable(builder[t].model_filename)) =>
            /\ ~Called(t, "CreateSession")
            /\ pc[t] = "done"
            /\ outcome[t].kind # "ok"
            /\ (session_options_ptr[t] # Null /\ ~builder[t].options) =>
                   /\ outcome[t].kind = "err"
                   /\ ~builder[t].model_filename.utf8 =>
                          outcome[t] = Err("NonUtf8Path", builder[t].model_filename)

C20_Witness ==
    \E t \in Hosts :
        /\ pc[t] = "done"
        /\ builder[t].model_filename.exists
        /\ ~builder[t].model_filename.utf8
        /\ Len(calls[t]) = 3
        /\ outcome[t] = Err("NonUtf8Path", builder[t].model_filename)

\* C21: read_inputs stops at the first read_input that fails: it returns
\* that error and no descriptor, every read_input call before the failing one
\* succeeded, and read_input is not called for a greater index.
C21_FailFast ==
    /\ rpc \in {"next", "name", "typeinfo", "cast", "element_type", "dims_count",
                "dims", "collect"} => Len(inputs) = ri
    /\ \A k \in 1..Len(readLog) : readLog[k] = k - 1
    /\ (rpc \in {"collect", "returned"} /\ ret.kind = "err") =>
           /\ Len(readLog) = ri + 1
           /\ Len(inputs) = ri
           /\ rpc = "returned" =>
                  /\ rresult = ret
                  /\ "inputs" \notin DOMAIN rresult

C21_Witness ==
    /\ rpc = "returned"
    /\ ret.kind = "err"
    /\ rresult = ret
    /\ readLog = << ri >>
    /\ ri + 1 < num_input_nodes

\* C25: the list a successful read_inputs returns has as many descriptors as
\* read_inputs_count reported, the descriptor at position i is the one of
\* input i, and read_input was called once per index, in ascending order.
C25_OneDescriptorPerInput ==
    (rpc = "returned" /\ rresult.kind = "ok") =>
        /\ countReport.status = "ok"
        /\ Len(rresult.inputs) = countReport.count
        /\ \A i \in 0..(countReport.count - 1) :
               rresult.inputs[i + 1].name = NativeInputName(i)
        /\ readLog = [k \in 1..countReport.count |-> k - 1]

C25_Witness ==
    /\ rpc = "returned"
    /\ rresult.kind = "ok"
    /\ Len(rresult.inputs) = MaxInputs
    /\ Len(readLog) = MaxInputs

\* The error kind C22 gives each native call of build() that fills an
\* out-pointer.
ErrorKindOf ==
    [f \in CreatingCalls |->
        IF f = "CreateSessionOptions" THEN "SessionOptions"
        ELSE IF f = "CreateSession" THEN "Session"
        ELSE "Allocator"]

\* C22: a build() to which CreateSessionOptions, CreateSession or
\* GetAllocatorWithDefaultOptions reported a non-success status returned the
\* error kind of that call, carrying the diagnostic of the status; and a
\* build() returned one of these kinds only when that call had failed.
C22_ErrorKindPerStep ==
    \A t \in Hosts :
        pc[t] = "done" =>
            /\ \A i \in 1..Len(calls[t]) :
                   (calls[t][i].fn \in CreatingCalls /\ calls[t][i].status = "err") =>
                       /\ outcome[t].kind = "err"
                       /\ outcome[t].err = ErrorKindOf[calls[t][i].fn]
                       /\ outcome[t].msg = calls[t][i].msg
                       /\ outcome[t].msg \in Diagnostics
            /\ \A f \in CreatingCalls :
                   (outcome[t].kind = "err" /\ outcome[t].err = ErrorKindOf[f]) =>
                       /\ calls[t][Len(calls[t])].fn = f
                       /\ calls[t][Len(calls[t])].status = "err"

C22_Witness ==
    \E t \in Hosts :
        /\ pc[t] = "done"
        /\ Len(calls[t]) = 5
        /\ calls[t][5].status = "err"
        /\ outcome[t].kind = "err"
        /\ outcome[t].err = "Allocator"
        /\ outcome[t].msg = calls[t][5].msg

\* C23: a build() on a builder that holds an options override returns a
\* not-supported error, without a CreateSession call.
C23_OptionsOverrideRejected ==
    \A t \in Hosts :
        (pc[t] = "done" /\ builder[t].options) =>
            /\ outcome[t].kind = "err"
            /\ outcome[t].err = "NotSupported"
            /\ ~Called(t, "CreateSession")

\* The functions of a call log, in call order.
Fns(log) == [i \in 1..Len(log) |-> log[i].fn]

\* C24: a build() that returned a Session made exactly the calls
\* CreateSessionOptions, SetIntraOpNumThreads,
\* SetSessionGraphOptimizationLevel, CreateSession and
\* GetAllocatorWithDefaultOptions, in this order; the path checks are made
\* after the two setters and before CreateSession, which is called only for
\* a path that passes them, with the options handle given to the setters.
C24_CallOrder ==
    \A t \in Hosts :
        /\ (pc[t] = "done" /\ outcome[t].kind = "ok") =>
               /\ Fns(calls[t]) =
                      << "CreateSessionOptions", "SetIntraOpNumThreads",
                         "SetSessionGraphOptimizationLevel", "CreateSession",
                         "GetAllocatorWithDefaultOptions" >>
               /\ calls[t][1].out # Null
               /\ calls[t][2].h = calls[t][1].out
               /\ calls[t][3].h = calls[t][1].out
               /\ calls[t][4].h = calls[t][1].out
        /\ pc[t] = "check_path" =>
               Fns(calls[t]) =
                   << "CreateSessionOptions", "SetIntraOpNumThreads",
                      "SetSessionGraphOptimizationLevel" >>
        /\ (pc[t] # "idle" /\ Called(t, "CreateSession")) =>
               /\ builder[t].model_filename.exists
               /\ builder[t].model_filename.utf8
               /\ ~builder[t].model_filename.nul

C24_Witness ==
    \E t \in Hosts :
        /\ pc[t] = "done"
        /\ outcome[t].kind = "ok"
        /\ Len(calls[t]) = 5
        /\ calls[t][4].fn = "CreateSession"
        /\ calls[t][4].h = session_options_ptr[t]

====
